---- MODULE Spec2Model ----
(***************************************************************************)
(* A model of one WebRTC dial attempt of go.viam.com/utils/rpc:             *)
(* dialWebRTC (rpc/wrtc_client.go) with the client connection factory       *)
(* newPeerConnectionForClient (rpc/webrtc/peer.go).                         *)
(*                                                                         *)
(* Three threads of control run against each other:                        *)
(*   - the orchestrator, the goroutine that called dialWebRTC (orch);       *)
(*   - the background receive task started at wrtc_client.go:244, which    *)
(*     runs exchangeCandidates (taskPc);                                    *)
(*   - the OnICECandidate hook, which the negotiation engine invokes once  *)
(*     per local candidate and once with nil when gathering ends (hookPc). *)
(* The environment cancels the caller's context, fires the signaling       *)
(* timeout, opens the data channel and decides every fallible call.        *)
(*                                                                         *)
(* sent is the log of requests the client issues to the signaling client   *)
(* (Call and CallUpdate), in the order they are issued.                    *)
(***************************************************************************)
EXTENDS Naturals, Sequences, FiniteSets

\* ------------------------------------------------------------------ bounds
\* Inbound messages the receive task reads in one attempt.
MaxRecv == 2
\* Local (non-nil) candidates the engine gathers in one attempt.
MaxCands == 1

\* Session identifiers the signaling service may put on a message. The code
\* only copies and compares them, so the one an init assigns is taken to be
\* "u1"; an update carries that one or another.
Uuids == {"u1", "u2"}
AssignedUuids == {"u1"}
\* uuid before any init (the zero value of the Go string).
NoUuid == ""

\* Inbound CallResponse messages: an init, an update (carrying a candidate
\* or, malformed, none), or a response with neither stage set.
Inits == [kind : {"init"}, uuid : AssignedUuids, cand : {FALSE}]
Updates == [kind : {"update"}, uuid : Uuids, cand : BOOLEAN]
Others == [kind : {"other"}, uuid : {NoUuid}, cand : {FALSE}]
Msgs == Inits \cup Updates \cup Others

\* Failures of the initial Call: a gRPC status with a code, or a plain error.
CallErrs == {[isStatus |-> TRUE, code |-> "Unimplemented"],
             [isStatus |-> TRUE, code |-> "Unavailable"],
             [isStatus |-> FALSE, code |-> "Unknown"]}
\* The initial Call has not returned; it returned a stream.
NoCall == [isStatus |-> FALSE, code |-> "none"]
CallOk == [isStatus |-> FALSE, code |-> "OK"]

VARIABLES
    trickle,       \* !dOpts.webrtcOpts.DisableTrickleICE
    ctxErr,        \* ctx.Err(): "none", "canceled" or "deadline"
    cancelAt,      \* where ctx finished: "none" (not yet), "doCall", "other"
    timedOut,      \* the webrtcConnectionTimeout timer of dialCtx has fired
    orch,          \* the orchestrator's position in dialWebRTC
    conn,          \* the control connection: "none", "open", "closed"
    connCloses,    \* invocations of conn.Close()
    pc,            \* the negotiation endpoint: "none", "open", "closed"
    pcCloses,      \* invocations of pc.Close()
    pcDeferred,    \* the deferred pc.Close of dialWebRTC is registered
    successful,    \* dialWebRTC's successful flag
    localDesc,     \* pc.SetLocalDescription has succeeded
    remoteDesc,    \* pc.SetRemoteDescription has succeeded
    hookSet,       \* pc.OnICECandidate has registered the hook
    exchangeCtx,   \* "absent", "live", "canceled" or "deadline"
    once,          \* sendDoneErrorOnce: "fresh", "running", "done"
    uuid,          \* the session identifier variable
    remoteDescSet, \* the remoteDescSet channel is closed
    clientCh,      \* the channel wrapper: "none", "open", "closed"
    ready,         \* clientCh.Ready() is closed
    via,           \* the select case doCall took: "none", "ctx", "ready", "errCh"
    callRes,       \* what the initial Call returned: NoCall, CallOk or a failure
    callErr,       \* doCall's result, a set of combined errors
    ch,            \* named result ch: TRUE when clientCh is returned
    err,           \* named result err, a set of combined errors
    taskPc,        \* the receive task's position
    haveInit,      \* exchangeCandidates' haveInit
    taskErr,       \* what exchangeCandidates returned ("none" while running)
    recvLog,       \* the messages callClient.Recv has returned, in order
    applied,       \* indices of recvLog whose candidate pc.AddICECandidate took
    hookPc,        \* the hook invocation's position
    hookArg,       \* the running invocation: [nil, early]
    hookErr,       \* the error the hook is passing to sendErr
    nCands,        \* local candidates handed to the hook so far
    gathered,      \* the nil candidate (gathering complete) has been handed over
    sent,          \* requests issued to the signaling client
    xlat           \* the candidate translator's run (idle during a dial)

vars == <<trickle, ctxErr, cancelAt, timedOut, orch, conn, connCloses, pc, pcCloses,
          pcDeferred, successful, localDesc, remoteDesc, hookSet, exchangeCtx,
          once, uuid, remoteDescSet, clientCh, ready, via, callRes, callErr,
          ch, err, taskPc, haveInit, taskErr, recvLog, applied, hookPc, hookArg,
          hookErr, nCands, gathered, sent, xlat>>

envVars == <<trickle, ctxErr, cancelAt, timedOut>>
connVars == <<conn, connCloses>>
pcVars == <<pc, pcCloses, pcDeferred, successful, localDesc, remoteDesc, hookSet>>
chVars == <<clientCh, ready>>
orchVars == <<orch, via, callRes, callErr, ch, err>>
taskVars == <<taskPc, haveInit, taskErr, recvLog, applied>>
hookVars == <<hookPc, hookArg, hookErr, nCands, gathered>>

\* --------------------------------------------------------------- helpers

\* multierr.Combine drops nil errors; an error is modelled as the set of its
\* non-nil parts, nil as the empty set.
Nil == {}
CombineKeepsLast(a, b) == IF b = Nil THEN a ELSE b
Combine(a, b) == a \cup b

\* A fallible call with no argument of interest: nil, or the named error.
Outcomes(e) == {Nil, {e}}

\* ctx.Done() is closed.
CtxDone == ctxErr /= "none"

\* dialCtx.Done() is closed: the parent is done or the timer has fired.
DialCtxDone == CtxDone \/ timedOut

\* exchangeCtx.Done() is closed (exchangeCtx.Err() != nil).
ExchangeDone == exchangeCtx \in {"canceled", "deadline"}

\* context.WithCancel(signalCtx): a child of an already finished parent is
\* born finished, with the parent's error.
ExchangeCtxBornLive == "live"
NewExchangeCtx == IF CtxDone THEN ctxErr ELSE "live"

\* exchangeCtx is derived from signalCtx, itself derived from ctx: when ctx
\* finishes with error e, a live exchangeCtx x finishes with it.
Detached(x, e) == x
Propagate(x, e) == IF x = "live" THEN e ELSE x

\* A request handed to the signaling client, with what was true when it was
\* issued: rd (the remote description was applied), closed (the channel
\* wrapper was closed), early (the hook invocation issuing it had fired before
\* the remote description was ready), ctxDone (its context, exchangeCtx, was
\* already finished).
Req(kind, by, early) ==
    [kind |-> kind, uuid |-> uuid, by |-> by, rd |-> remoteDesc,
     closed |-> clientCh = "closed", early |-> early,
     ctxDone |-> ExchangeDone]

Terminal(r) == r.kind \in {"done", "error"}

\* status.FromError(err); ok && s.Code() == codes.Unimplemented
IsUnimplementedWrongCode(e) == e.isStatus /\ e.code = "Unavailable"
IsUnimplemented(e) == e.isStatus /\ e.code = "Unimplemented"

\* The error the initial Call's failure is returned as.
CallFailure(e) == IF IsUnimplemented(e) THEN {"ErrNoWebRTCSignaler"}
                  ELSE {IF e.isStatus THEN e.code ELSE "callErr"}

\* sync.Once.Do: the caller runs the function only when the Once is fresh.
OnceUnguarded(o) == o /= "done"
OnceRuns(o) == o = "fresh"
\* sync.Once.Do returns without running it once it has completed; while
\* another caller is running it, Do blocks.
OnceSkips(o) == o = "done"

\* if !dOptsCopy.webrtcOpts.DisableTrickleICE { ... pc.OnICECandidate(...) }
HookInstalledAlways(t) == TRUE
HookInstalled(t) == t

\* select { case <-remoteDescSet: ... } in the hook.
HookMayRelayAtOnce == TRUE
HookMayRelay == remoteDescSet

\* if haveInit { return errors.New("got init stage more than once") }
DuplicateInitIgnored(h) == FALSE
DuplicateInit(h) == h

\* if !haveInit { return errors.New("got update stage before init stage") }
UpdateBeforeInitIgnored(h) == FALSE
UpdateBeforeInit(h) == ~h

\* if callResp.Uuid != uuid { return errors.Errorf("uuid mismatch; ...") }
UuidMismatchIgnored(m, u) == FALSE
UuidMismatch(m, u) == m /= u

\* if dOptsCopy.webrtcOpts.DisableTrickleICE { return sendDone() }
VanillaKeepsReading(t) == FALSE
ReturnsAfterInitAlways(t) == TRUE
VanillaReturnsAfterInit(t) == ~t

\* ------------------------------------------------- candidate translator

\* The largest uint16; a uint32 is held as its two 16-bit halves [hi, lo],
\* its value being hi * 65536 + lo.
MaxUint16 == 65535
Halves == {0, 1, MaxUint16}
Uint16s == Halves
Uint32s == [hi : Halves, lo : Halves]

\* uint32(x) of a uint16 x: the value is kept, the high half is zero.
ToUint32(x) == [hi |-> 0, lo |-> x]
\* uint16(w) of a uint32 w keeps the low 16 bits.
ToUint16(w) == w.lo

\* A Go pointer field: nil, or a pointer to a value (val is meaningless, and
\* held at the zero value, when nil).
NilStr == [nil |-> TRUE, val |-> ""]
StrPtrs == {NilStr} \cup [nil : {FALSE}, val : {"", "a"}]
NilUint16 == [nil |-> TRUE, val |-> 0]
Uint16Ptrs == {NilUint16} \cup [nil : {FALSE}, val : Uint16s]
NilUint32 == [nil |-> TRUE, val |-> ToUint32(0)]
Uint32Ptrs == {NilUint32} \cup [nil : {FALSE}, val : Uint32s]
CandidateStrings == {"", "candidate:1"}

\* webrtc.ICECandidateInit, the local representation.
ICECandidateInits ==
    [Candidate : CandidateStrings, SDPMid : StrPtrs,
     SDPMLineIndex : Uint16Ptrs, UsernameFragment : StrPtrs]

\* webrtcpb.ICECandidate, the wire representation.
ICECandidates ==
    [Candidate : CandidateStrings, SdpMid : StrPtrs,
     SdpmLineIndex : Uint32Ptrs, UsernameFragment : StrPtrs]

\* func iceCandidateInitToProto(ij webrtc.ICECandidateInit) *webrtcpb.ICECandidate
iceCandidateInitToProto(ij) ==
    [Candidate |-> ij.Candidate,
     SdpMid |-> IF ij.SDPMid.nil THEN NilStr
                ELSE [nil |-> FALSE, val |-> ij.SDPMid.val],
     SdpmLineIndex |-> IF ij.SDPMLineIndex.nil THEN NilUint32
                       ELSE [nil |-> FALSE, val |-> ToUint32(ij.SDPMLineIndex.val)],
     UsernameFragment |-> IF ij.UsernameFragment.nil THEN NilStr
                          ELSE [nil |-> FALSE, val |-> ij.UsernameFragment.val]]

\* func iceCandidateFromProto(i *webrtcpb.ICECandidate) webrtc.ICECandidateInit
iceCandidateFromProtoZeroed(i) ==
    [Candidate |-> i.Candidate,
     SDPMid |-> [nil |-> FALSE, val |-> i.SdpMid.val],
     SDPMLineIndex |-> [nil |-> FALSE, val |-> ToUint16(i.SdpmLineIndex.val)],
     UsernameFragment |-> [nil |-> FALSE, val |-> i.UsernameFragment.val]]
iceCandidateFromProto(i) ==
    [Candidate |-> i.Candidate,
     SDPMid |-> IF i.SdpMid.nil THEN NilStr
                ELSE [nil |-> FALSE, val |-> i.SdpMid.val],
     SDPMLineIndex |-> IF i.SdpmLineIndex.nil THEN NilUint16
                       ELSE [nil |-> FALSE, val |-> ToUint16(i.SdpmLineIndex.val)],
     UsernameFragment |-> IF i.UsernameFragment.nil THEN NilStr
                          ELSE [nil |-> FALSE, val |-> i.UsernameFragment.val]]

\* The translator's run: what it was given (a local candidate to send and
\* read back, or a wire candidate to read), how far it is, and its results.
NoLocal == [Candidate |-> "", SDPMid |-> NilStr, SDPMLineIndex |-> NilUint16,
            UsernameFragment |-> NilStr]
NoWire == [Candidate |-> "", SdpMid |-> NilStr, SdpmLineIndex |-> NilUint32,
           UsernameFragment |-> NilStr]
XlatIdle == [given |-> "none", phase |-> "idle", local |-> NoLocal,
             wire |-> NoWire, back |-> NoLocal]

\* ------------------------------------------------------------------ Init

\* The state of a dial as dialWebRTC is entered.
DialInit ==
    /\ trickle \in BOOLEAN
    /\ ctxErr = "none"
    /\ cancelAt = "none"
    /\ timedOut = FALSE
    /\ orch = "dial"
    /\ conn = "none"
    /\ connCloses = 0
    /\ pc = "none"
    /\ pcCloses = 0
    /\ pcDeferred = FALSE
    /\ successful = FALSE
    /\ localDesc = FALSE
    /\ remoteDesc = FALSE
    /\ hookSet = FALSE
    /\ exchangeCtx = "absent"
    /\ once = "fresh"
    /\ uuid = NoUuid
    /\ remoteDescSet = FALSE
    /\ clientCh = "none"
    /\ ready = FALSE
    /\ via = "none"
    /\ callRes = NoCall
    /\ callErr = Nil
    /\ ch = FALSE
    /\ err = Nil
    /\ taskPc = "unstarted"
    /\ haveInit = FALSE
    /\ taskErr = "none"
    /\ recvLog = <<>>
    /\ applied = {}
    /\ hookPc = "idle"
    /\ hookArg = [nil |-> FALSE, early |-> FALSE]
    /\ hookErr = "none"
    /\ nCands = 0
    /\ gathered = FALSE
    /\ sent = <<>>

Init ==
    /\ DialInit
    /\ xlat = XlatIdle

\* ----------------------------------------------------------- environment

\* The caller's context is cancelled or its deadline passes; exchangeCtx, a
\* child of it, finishes with the same error.
Cancel ==
    /\ ctxErr = "none"
    /\ orch /= "returned"
    /\ \E e \in {"canceled", "deadline"} :
        /\ ctxErr' = e
        /\ exchangeCtx' = Propagate(exchangeCtx, e)
    /\ cancelAt' = IF orch = "doCall" THEN "doCall" ELSE "other"
    /\ UNCHANGED <<xlat, trickle, timedOut, connVars, pcVars, chVars, orchVars,
                   taskVars, hookVars, once, uuid, remoteDescSet, sent>>

\* The timer of dialCtx (context.WithTimeout(ctx, webrtcConnectionTimeout))
\* fires; timeoutCancel is deferred, so it can fire until the dial returns.
\* dialCtx is read by dialDirectGRPC alone.
Timeout ==
    /\ ~timedOut
    /\ orch \in {"dial", "config"}
    /\ timedOut' = TRUE
    /\ UNCHANGED <<xlat, trickle, ctxErr, cancelAt, connVars, pcVars, chVars,
                   orchVars, taskVars, hookVars, exchangeCtx, once, uuid,
                   remoteDescSet, sent>>

\* The data channel opens: the wrapper's readiness signal fires. The engine
\* can connect only with both descriptions set and the endpoint open.
ChannelOpen ==
    /\ clientCh = "open"
    /\ ~ready
    /\ pc = "open"
    /\ localDesc
    /\ remoteDesc
    /\ ready' = TRUE
    /\ UNCHANGED <<xlat, envVars, connVars, pcVars, clientCh, orchVars, taskVars,
                   hookVars, exchangeCtx, once, uuid, remoteDescSet, sent>>

\* ---------------------------------------------------------- orchestrator

\* A return statement of dialWebRTC: the named results are set and the
\* deferred functions run next.
Return(c, e) ==
    /\ ch' = c
    /\ err' = e
    /\ orch' = "defers"

\* signalingClient.CallUpdate(exchangeCtx, ...) returns an error when its
\* context was finished as it was issued, and nil or an error otherwise.
UpdateResults(done) == IF done THEN {{"updateErr"}} ELSE Outcomes("updateErr")

\* Process p's terminal request was issued on a finished context.
IssuedDone(p) ==
    \E i \in DOMAIN sent :
        sent[i].by = p /\ Terminal(sent[i]) /\ sent[i].ctxDone

\* conn, _, err := dialDirectGRPC(dialCtx, ...); a dial on a finished
\* context fails.
dialDirectGRPC ==
    /\ orch = "dial"
    /\ \/ /\ ~DialCtxDone
          /\ conn' = "open"
          /\ orch' = "config"
          /\ UNCHANGED <<ch, err>>
       \/ /\ Return(FALSE, {"dialErr"})
          /\ UNCHANGED conn
    /\ UNCHANGED <<xlat, envVars, connCloses, pcVars, chVars, via, callRes, callErr, taskVars,
                   hookVars, exchangeCtx, once, uuid, remoteDescSet, sent>>

\* configResp, err := signalingClient.OptionalWebRTCConfig(signalCtx, ...);
\* signalCtx carries ctx, not dialCtx.
OptionalWebRTCConfig ==
    /\ orch = "config"
    /\ \/ /\ ~CtxDone
          /\ orch' = "factory"
          /\ UNCHANGED <<ch, err>>
       \/ Return(FALSE, {"configErr"})
    /\ UNCHANGED <<xlat, envVars, connVars, pcVars, chVars, via, callRes, callErr, taskVars,
                   hookVars, exchangeCtx, once, uuid, remoteDescSet, sent>>

\* The factory's deferred pc.Close() when it fails after the endpoint exists,
\* and dialWebRTC's return of the combined error.
FactoryFails(e) ==
    /\ pc' = "closed"
    /\ pcCloses' = pcCloses + 1
    /\ \E c \in Outcomes("pcCloseErr") : Return(FALSE, Combine(e, c))

\* newPeerConnectionForClient returned without error; dialWebRTC registers
\* its deferred pc.Close, derives exchangeCtx and reaches the trickle branch.
FactorySucceeds ==
    /\ pcDeferred' = TRUE
    /\ exchangeCtx' = NewExchangeCtx
    /\ orch' = IF HookInstalled(trickle) THEN "createOffer" ELSE "encode"

\* newWebRTCAPI and webAPI.NewPeerConnection(config).
NewPeerConnection ==
    /\ orch = "factory"
    /\ \/ /\ pc' = "open"
          /\ orch' = "createDC"
          /\ UNCHANGED <<ch, err>>
       \/ /\ Return(FALSE, {"factoryErr"})
          /\ UNCHANGED pc
    /\ UNCHANGED <<xlat, envVars, connVars, pcCloses, pcDeferred, successful,
                   localDesc, remoteDesc, hookSet, chVars, via, callRes, callErr,
                   taskVars, hookVars, exchangeCtx, once, uuid, remoteDescSet,
                   sent>>

\* pc.CreateDataChannel("data", ...); with trickle the factory returns here.
CreateDataChannel ==
    /\ orch = "createDC"
    /\ \/ /\ FactoryFails({"factoryErr"})
          /\ UNCHANGED <<pcDeferred, exchangeCtx>>
       \/ /\ trickle
          /\ FactorySucceeds
          /\ UNCHANGED <<pc, pcCloses, ch, err>>
       \/ /\ ~trickle
          /\ orch' = "vanillaOffer"
          /\ UNCHANGED <<pc, pcCloses, pcDeferred, exchangeCtx, ch, err>>
    /\ UNCHANGED <<xlat, envVars, connVars, successful, localDesc, remoteDesc,
                   hookSet, chVars, via, callRes, callErr, taskVars, hookVars, once,
                   uuid, remoteDescSet, sent>>

\* if disableTrickle: pc.CreateOffer(nil) and pc.SetLocalDescription(offer).
VanillaOffer ==
    /\ orch = "vanillaOffer"
    /\ \/ /\ FactoryFails({"factoryErr"})
          /\ UNCHANGED localDesc
       \/ /\ localDesc' = TRUE
          /\ orch' = "gather"
          /\ UNCHANGED <<pc, pcCloses, ch, err>>
    /\ UNCHANGED <<xlat, envVars, connVars, pcDeferred, successful, remoteDesc,
                   hookSet, chVars, via, callRes, callErr, taskVars, hookVars,
                   exchangeCtx, once, uuid, remoteDescSet, sent>>

\* select { case <-ctx.Done(): return pc, nil, ctx.Err(); case <-gatherComplete: }
GatherWait ==
    /\ orch = "gather"
    /\ \/ /\ CtxDone
          /\ FactoryFails({ctxErr})
          /\ UNCHANGED <<pcDeferred, exchangeCtx>>
       \/ /\ FactorySucceeds
          /\ UNCHANGED <<pc, pcCloses, ch, err>>
    /\ UNCHANGED <<xlat, envVars, connVars, successful, localDesc, remoteDesc,
                   hookSet, chVars, via, callRes, callErr, taskVars, hookVars, once,
                   uuid, remoteDescSet, sent>>

\* offer, err := pc.CreateOffer(nil); pc.OnICECandidate(func ...)
CreateOffer ==
    /\ orch = "createOffer"
    /\ \/ /\ hookSet' = TRUE
          /\ orch' = "setLocal"
          /\ UNCHANGED <<ch, err>>
       \/ /\ Return(FALSE, {"offerErr"})
          /\ UNCHANGED hookSet
    /\ UNCHANGED <<xlat, envVars, connVars, pc, pcCloses, pcDeferred, successful,
                   localDesc, remoteDesc, chVars, via, callRes, callErr, taskVars,
                   hookVars, exchangeCtx, once, uuid, remoteDescSet, sent>>

\* err = pc.SetLocalDescription(offer); gathering starts when it succeeds.
SetLocalDescription ==
    /\ orch = "setLocal"
    /\ \/ /\ localDesc' = TRUE
          /\ orch' = "encode"
          /\ UNCHANGED <<ch, err>>
       \/ /\ Return(FALSE, {"setLocalErr"})
          /\ UNCHANGED localDesc
    /\ UNCHANGED <<xlat, envVars, connVars, pc, pcCloses, pcDeferred, successful,
                   remoteDesc, hookSet, chVars, via, callRes, callErr, taskVars,
                   hookVars, exchangeCtx, once, uuid, remoteDescSet, sent>>

\* encodedSDP, err := encodeSDP(pc.LocalDescription())
encodeSDP ==
    /\ orch = "encode"
    /\ \/ /\ orch' = "call"
          /\ UNCHANGED <<ch, err>>
       \/ Return(FALSE, {"encodeErr"})
    /\ UNCHANGED <<xlat, envVars, connVars, pcVars, chVars, via, callRes, callErr, taskVars,
                   hookVars, exchangeCtx, once, uuid, remoteDescSet, sent>>

\* callClient, err := signalingClient.Call(signalCtx, ...): the initial
\* request is issued; a failure is classified.
Call ==
    /\ orch = "call"
    /\ sent' = Append(sent, Req("call", "orch", FALSE))
    /\ \/ /\ orch' = "spawn"
          /\ callRes' = CallOk
          /\ UNCHANGED <<ch, err>>
       \/ \E e \in CallErrs :
            /\ callRes' = e
            /\ Return(FALSE, CallFailure(e))
    /\ UNCHANGED <<xlat, envVars, connVars, pcVars, chVars, via, callErr, taskVars,
                   hookVars, exchangeCtx, once, uuid, remoteDescSet>>

\* clientCh := newWebRTCClientChannel(pc, dc, logger) and
\* utils.PanicCapturingGoWithCallback(...): the receive task starts.
Spawn ==
    /\ orch = "spawn"
    /\ clientCh' = "open"
    /\ taskPc' = "loop"
    /\ orch' = "doCall"
    /\ UNCHANGED <<xlat, envVars, connVars, pcVars, ready, via, callRes, callErr, ch, err,
                   haveInit, taskErr, recvLog, applied, hookVars, exchangeCtx,
                   once, uuid, remoteDescSet, sent>>

\* clientCh.Close(): idempotent; the first call releases the data channel
\* and closes the negotiation endpoint, whose close error it returns.
ClientChClose ==
    /\ clientCh' = "closed"
    /\ pc' = "closed"
    /\ pcCloses' = IF clientCh = "open" THEN pcCloses + 1 ELSE pcCloses

\* doCall, case <-ctx.Done(): return multierr.Combine(ctx.Err(), clientCh.Close())
doCallCtxDone ==
    /\ orch = "doCall"
    /\ CtxDone
    /\ ClientChClose
    /\ \E c \in Outcomes("pcCloseErr") : callErr' = Combine({ctxErr}, c)
    /\ via' = "ctx"
    /\ orch' = "errOnce"
    /\ UNCHANGED <<xlat, callRes, envVars, connVars, pcDeferred, successful, localDesc,
                   remoteDesc, hookSet, ready, ch, err, taskVars, hookVars,
                   exchangeCtx, once, uuid, remoteDescSet, sent>>

\* doCall, case <-clientCh.Ready(): return nil
doCallReady ==
    /\ orch = "doCall"
    /\ ready
    /\ via' = "ready"
    /\ orch' = "sendDone"
    /\ UNCHANGED <<xlat, envVars, connVars, pcVars, chVars, callRes, callErr, ch, err,
                   taskVars, hookVars, exchangeCtx, once, uuid, remoteDescSet,
                   sent>>

\* doCall, case err := <-errCh: the receive task's sendErr hands over its
\* error (errCh has no buffer: sender and receiver meet).
doCallErrTask ==
    /\ orch = "doCall"
    /\ taskPc = "sendErr"
    /\ ClientChClose
    /\ \E c \in Outcomes("pcCloseErr") : callErr' = Combine({taskErr}, c)
    /\ via' = "errCh"
    /\ orch' = "errOnce"
    /\ taskPc' = "done"
    /\ UNCHANGED <<xlat, callRes, envVars, connVars, pcDeferred, successful, localDesc,
                   remoteDesc, hookSet, ready, ch, err, haveInit, taskErr,
                   recvLog, applied, hookVars, exchangeCtx, once, uuid,
                   remoteDescSet, sent>>

\* doCall, case err := <-errCh: the hook's sendErr hands over its error.
doCallErrHook ==
    /\ orch = "doCall"
    /\ hookPc = "sendErr"
    /\ ClientChClose
    /\ \E c \in Outcomes("pcCloseErr") : callErr' = Combine({hookErr}, c)
    /\ via' = "errCh"
    /\ orch' = "errOnce"
    /\ hookPc' = "idle"
    /\ hookArg' = [nil |-> FALSE, early |-> FALSE]
    /\ hookErr' = "none"
    /\ UNCHANGED <<xlat, callRes, envVars, connVars, pcDeferred, successful, localDesc,
                   remoteDesc, hookSet, ready, ch, err, taskVars, nCands,
                   gathered, exchangeCtx, once, uuid, remoteDescSet, sent>>

\* The orchestrator's read of uuid for the error update (line 267). When the
\* wait ended on ctx.Done() nothing orders the read after the receive task's
\* write of uuid (line 212): the read races with it and yields the value
\* before or after the write. On the other paths the write reaches the
\* orchestrator through errCh, if it was made at all.
UuidRead == IF via = "ctx" THEN {NoUuid, uuid} ELSE {uuid}

\* if callErr := doCall(); callErr != nil { sendDoneErrorOnce.Do(func() {
\* CallUpdate(exchangeCtx, {Uuid: uuid, Error: ...}) }) ... }: entering Do.
ErrorUpdate ==
    /\ orch = "errOnce"
    /\ \/ /\ OnceRuns(once)
          /\ once' = "running"
          /\ \E u \in UuidRead :
                sent' = Append(sent, [Req("error", "orch", FALSE) EXCEPT !.uuid = u])
          /\ orch' = "errRun"
          /\ UNCHANGED <<ch, err>>
       \/ /\ OnceSkips(once)
          /\ Return(FALSE, callErr)
          /\ UNCHANGED <<once, sent>>
    /\ UNCHANGED <<xlat, envVars, connVars, pcVars, chVars, via, callRes, callErr, taskVars,
                   hookVars, exchangeCtx, uuid, remoteDescSet>>

\* The error update's CallUpdate returns;
\* return nil, multierr.Combine(callErr, err)
ErrorUpdateReturns ==
    /\ orch = "errRun"
    /\ once' = "done"
    /\ \E e \in UpdateResults(IssuedDone("orch")) :
        Return(FALSE, Combine(callErr, e))
    /\ UNCHANGED <<xlat, envVars, connVars, pcVars, chVars, via, callRes, callErr, taskVars,
                   hookVars, exchangeCtx, uuid, remoteDescSet, sent>>

\* if err := sendDone(); err != nil { return nil, err }: entering Do; when
\* the Once has completed sendDone returns nil and the dial succeeds.
SendDoneOrch ==
    /\ orch = "sendDone"
    /\ \/ /\ OnceRuns(once)
          /\ once' = "running"
          /\ sent' = Append(sent, Req("done", "orch", FALSE))
          /\ orch' = "doneRun"
          /\ UNCHANGED <<successful, ch, err>>
       \/ /\ OnceSkips(once)
          /\ successful' = TRUE
          /\ Return(TRUE, Nil)
          /\ UNCHANGED <<once, sent>>
    /\ UNCHANGED <<xlat, envVars, connVars, pc, pcCloses, pcDeferred, localDesc,
                   remoteDesc, hookSet, chVars, via, callRes, callErr, taskVars,
                   hookVars, exchangeCtx, uuid, remoteDescSet>>

\* if err := sendDone(); err != nil { return nil, err }
SendDoneErrorIgnored(e) == FALSE
SendDoneFailed(e) == e /= Nil

\* The done update's CallUpdate returns; successful = true;
\* return clientCh, nil
SendDoneOrchReturns ==
    /\ orch = "doneRun"
    /\ once' = "done"
    /\ \E e \in UpdateResults(IssuedDone("orch")) :
        IF SendDoneFailed(e)
        THEN successful' = FALSE /\ Return(FALSE, e)
        ELSE successful' = TRUE /\ Return(TRUE, Nil)
    /\ UNCHANGED <<xlat, envVars, connVars, pc, pcCloses, pcDeferred, localDesc,
                   remoteDesc, hookSet, chVars, via, callRes, callErr, taskVars,
                   hookVars, exchangeCtx, uuid, remoteDescSet, sent>>

\* defer func() { if !successful { err = multierr.Combine(err, pc.Close()) } }()
\* runs once it is registered.
ClosesOnSuccess == pcDeferred /\ successful
ClosesAlways == pcDeferred
ClosesEndpoint == pcDeferred /\ ~successful

\* defer exchangeCancel(): a live exchangeCtx is cancelled, a finished one
\* keeps its error.
exchangeCancelSkipped(x) == x
exchangeCancel(x) == IF x = "live" THEN "canceled" ELSE x

\* The deferred functions, last registered first: exchangeCancel(); pc.Close()
\* unless successful; conn.Close(); each close error is combined into err.
Defers ==
    /\ orch = "defers"
    /\ exchangeCtx' = exchangeCancel(exchangeCtx)
    /\ \E pe \in (IF ClosesEndpoint THEN Outcomes("pcCloseErr") ELSE {Nil}),
          ce \in (IF conn /= "none" THEN Outcomes("connCloseErr") ELSE {Nil}) :
        err' = Combine(err, Combine(pe, ce))
    /\ pc' = IF ClosesEndpoint THEN "closed" ELSE pc
    /\ pcCloses' = IF ClosesEndpoint THEN pcCloses + 1 ELSE pcCloses
    /\ conn' = IF conn /= "none" THEN "closed" ELSE conn
    /\ connCloses' = IF conn /= "none" THEN connCloses + 1 ELSE connCloses
    /\ orch' = "returned"
    /\ UNCHANGED <<xlat, envVars, pcDeferred, successful, localDesc, remoteDesc,
                   hookSet, chVars, via, callRes, callErr, ch, taskVars, hookVars, once,
                   uuid, remoteDescSet, sent>>

\* ---------------------------------------------------------- receive task

\* exchangeCandidates returns e; the goroutine passes a non-nil error (or a
\* captured panic) to sendErr, and ends on nil.
TaskReturns(e) ==
    /\ taskErr' = e
    /\ taskPc' = IF e = "nil" THEN "done" ELSE "sendErr"

\* if err := exchangeCtx.Err(); err != nil { if errors.Is(err,
\* context.Canceled) { return nil }; return err }
TaskLoop ==
    /\ taskPc = "loop"
    /\ CASE exchangeCtx = "canceled" -> TaskReturns("nil")
         [] exchangeCtx = "deadline" -> TaskReturns("deadline")
         [] OTHER -> taskPc' = "recv" /\ UNCHANGED taskErr
    /\ UNCHANGED <<xlat, envVars, connVars, pcVars, chVars, orchVars, haveInit,
                   recvLog, applied, hookVars, exchangeCtx, once, uuid,
                   remoteDescSet, sent>>

\* callResp, err := callClient.Recv() ends the stream: io.EOF returns nil,
\* any other error is returned.
RecvEnds ==
    /\ taskPc = "recv"
    /\ \E e \in {"nil", "recvErr"} : TaskReturns(e)
    /\ UNCHANGED <<xlat, envVars, connVars, pcVars, chVars, orchVars, haveInit,
                   recvLog, applied, hookVars, exchangeCtx, once, uuid,
                   remoteDescSet, sent>>

\* case *webrtcpb.CallResponse_Init: the duplicate check, haveInit, uuid,
\* decodeSDP and pc.SetRemoteDescription(answer).
RecvInit ==
    /\ taskPc = "recv"
    /\ Len(recvLog) < MaxRecv
    /\ \E m \in Inits :
        /\ recvLog' = Append(recvLog, m)
        /\ IF DuplicateInit(haveInit)
           THEN /\ TaskReturns("dupInit")
                /\ UNCHANGED <<haveInit, uuid, remoteDesc>>
           ELSE /\ haveInit' = TRUE
                /\ uuid' = m.uuid
                /\ \/ /\ \E e \in {"decodeErr", "setRemoteErr"} : TaskReturns(e)
                      /\ UNCHANGED remoteDesc
                   \/ /\ pc = "open"
                      /\ remoteDesc' = TRUE
                      /\ taskPc' = "closeSignal"
                      /\ UNCHANGED taskErr
    /\ UNCHANGED <<xlat, envVars, connVars, pc, pcCloses, pcDeferred, successful,
                   localDesc, hookSet, chVars, orchVars, applied, hookVars,
                   exchangeCtx, once, remoteDescSet, sent>>

\* close(remoteDescSet); if dOptsCopy.webrtcOpts.DisableTrickleICE {
\* return sendDone() }
CloseRemoteDescSet ==
    /\ taskPc = "closeSignal"
    /\ remoteDescSet' = TRUE
    /\ taskPc' = IF VanillaReturnsAfterInit(trickle) THEN "sendDone" ELSE "loop"
    /\ UNCHANGED <<xlat, envVars, connVars, pcVars, chVars, orchVars, haveInit,
                   taskErr, recvLog, applied, hookVars, exchangeCtx, once,
                   uuid, sent>>

\* sendDone() in the receive task: entering sendDoneErrorOnce.Do.
SendDoneTask ==
    /\ taskPc = "sendDone"
    /\ \/ /\ OnceRuns(once)
          /\ once' = "running"
          /\ sent' = Append(sent, Req("done", "task", FALSE))
          /\ taskPc' = "doneRun"
          /\ UNCHANGED taskErr
       \/ /\ OnceSkips(once)
          /\ TaskReturns("nil")
          /\ UNCHANGED <<once, sent>>
    /\ UNCHANGED <<xlat, envVars, connVars, pcVars, chVars, orchVars, haveInit,
                   recvLog, applied, hookVars, exchangeCtx, uuid,
                   remoteDescSet>>

\* The task's done update returns; exchangeCandidates returns its error.
SendDoneTaskReturns ==
    /\ taskPc = "doneRun"
    /\ once' = "done"
    /\ \E e \in UpdateResults(IssuedDone("task")) :
        TaskReturns(IF e = Nil THEN "nil" ELSE "updateErr")
    /\ UNCHANGED <<xlat, envVars, connVars, pcVars, chVars, orchVars, haveInit,
                   recvLog, applied, hookVars, exchangeCtx, uuid,
                   remoteDescSet, sent>>

\* case *webrtcpb.CallResponse_Update: the two checks, iceCandidateFromProto
\* (a nil candidate panics, and the panic is captured) and
\* pc.AddICECandidate(cand).
RecvUpdate ==
    /\ taskPc = "recv"
    /\ Len(recvLog) < MaxRecv
    /\ \E m \in Updates :
        /\ recvLog' = Append(recvLog, m)
        /\ IF UpdateBeforeInit(haveInit)
           THEN TaskReturns("updateBeforeInit") /\ UNCHANGED applied
           ELSE IF UuidMismatch(m.uuid, uuid)
           THEN TaskReturns("uuidMismatch") /\ UNCHANGED applied
           ELSE IF ~m.cand
           THEN TaskReturns("panic") /\ UNCHANGED applied
           ELSE \/ /\ pc = "open"
                   /\ applied' = applied \cup {Len(recvLog) + 1}
                   /\ taskPc' = "loop"
                   /\ UNCHANGED taskErr
                \/ /\ TaskReturns("addCandErr")
                   /\ UNCHANGED applied
    /\ UNCHANGED <<xlat, envVars, connVars, pcVars, chVars, orchVars, haveInit,
                   hookVars, exchangeCtx, once, uuid, remoteDescSet, sent>>

\* default: return errors.Errorf("unexpected stage %T", s)
RecvOther ==
    /\ taskPc = "recv"
    /\ Len(recvLog) < MaxRecv
    /\ \E m \in Others : recvLog' = Append(recvLog, m)
    /\ TaskReturns("unexpectedStage")
    /\ UNCHANGED <<xlat, envVars, connVars, pcVars, chVars, orchVars, haveInit,
                   applied, hookVars, exchangeCtx, once, uuid, remoteDescSet,
                   sent>>

\* sendErr in the receive task, case <-exchangeCtx.Done(): the error is
\* dropped. (case errCh <- err is doCallErrTask.)
SendErrTaskDropped ==
    /\ taskPc = "sendErr"
    /\ ExchangeDone
    /\ taskPc' = "done"
    /\ UNCHANGED <<xlat, envVars, connVars, pcVars, chVars, orchVars, haveInit,
                   taskErr, recvLog, applied, hookVars, exchangeCtx, once,
                   uuid, remoteDescSet, sent>>

\* ------------------------------------------------------------------ hook

\* The hook invocation returns: its argument and locals are gone.
NoArg == [nil |-> FALSE, early |-> FALSE]
HookReturns ==
    /\ hookPc' = "idle"
    /\ hookArg' = NoArg
    /\ hookErr' = "none"

\* The engine invokes the OnICECandidate hook with a candidate, or with nil
\* when gathering is complete, one invocation at a time;
\* if exchangeCtx.Err() != nil { return }
OnICECandidate ==
    /\ hookSet
    /\ localDesc
    /\ pc = "open"
    /\ hookPc = "idle"
    /\ ~gathered
    /\ \E nil \in BOOLEAN :
        /\ ~nil => nCands < MaxCands
        /\ gathered' = nil
        /\ nCands' = IF nil THEN nCands ELSE nCands + 1
        /\ IF ExchangeDone
           THEN UNCHANGED <<hookPc, hookArg>>
           ELSE /\ hookPc' = "select"
                /\ hookArg' = [nil |-> nil, early |-> ~remoteDescSet]
    /\ UNCHANGED <<xlat, envVars, connVars, pcVars, chVars, orchVars, taskVars,
                   hookErr, exchangeCtx, once, uuid, remoteDescSet, sent>>

\* select { case <-remoteDescSet: case <-exchangeCtx.Done(): return }
HookSelect ==
    /\ hookPc = "select"
    /\ \/ /\ HookMayRelay
          /\ hookPc' = "relay"
          /\ UNCHANGED <<hookArg, hookErr>>
       \/ /\ ExchangeDone
          /\ HookReturns
    /\ UNCHANGED <<xlat, envVars, connVars, pcVars, chVars, orchVars, taskVars,
                   nCands, gathered, exchangeCtx, once, uuid, remoteDescSet,
                   sent>>

\* if i == nil { if err := sendDone(); ... }: entering sendDoneErrorOnce.Do.
SendDoneHook ==
    /\ hookPc = "relay"
    /\ hookArg.nil
    /\ \/ /\ OnceRuns(once)
          /\ once' = "running"
          /\ sent' = Append(sent, Req("done", "hook", hookArg.early))
          /\ hookPc' = "doneRun"
          /\ UNCHANGED <<hookArg, hookErr>>
       \/ /\ OnceSkips(once)
          /\ HookReturns
          /\ UNCHANGED <<once, sent>>
    /\ UNCHANGED <<xlat, envVars, connVars, pcVars, chVars, orchVars, taskVars,
                   nCands, gathered, exchangeCtx, uuid, remoteDescSet>>

\* The hook's done update returns; if err != nil { sendErr(err) }
SendDoneHookReturns ==
    /\ hookPc = "doneRun"
    /\ once' = "done"
    /\ \E e \in UpdateResults(IssuedDone("hook")) :
        IF e = Nil
        THEN HookReturns
        ELSE hookPc' = "sendErr" /\ hookErr' = "updateErr" /\ UNCHANGED hookArg
    /\ UNCHANGED <<xlat, envVars, connVars, pcVars, chVars, orchVars, taskVars,
                   nCands, gathered, exchangeCtx, uuid, remoteDescSet, sent>>

\* iProto := iceCandidateToProto(i); CallUpdate(exchangeCtx, {Uuid: uuid,
\* Candidate: iProto}); if err != nil { sendErr(err) }
RelayCandidate ==
    /\ hookPc = "relay"
    /\ ~hookArg.nil
    /\ sent' = Append(sent, Req("candidate", "hook", hookArg.early))
    /\ \E e \in UpdateResults(ExchangeDone) :
        IF e = Nil
        THEN HookReturns
        ELSE hookPc' = "sendErr" /\ hookErr' = "updateErr" /\ UNCHANGED hookArg
    /\ UNCHANGED <<xlat, envVars, connVars, pcVars, chVars, orchVars, taskVars,
                   nCands, gathered, exchangeCtx, once, uuid, remoteDescSet>>

\* sendErr in the hook, case <-exchangeCtx.Done(): the error is dropped.
\* (case errCh <- err is doCallErrHook.)
SendErrHookDropped ==
    /\ hookPc = "sendErr"
    /\ ExchangeDone
    /\ HookReturns
    /\ UNCHANGED <<xlat, envVars, connVars, pcVars, chVars, orchVars, taskVars,
                   nCands, gathered, exchangeCtx, once, uuid, remoteDescSet,
                   sent>>

\* --------------------------------------------------------- specification

Next ==
    \/ Cancel
    \/ Timeout
    \/ ChannelOpen
    \/ dialDirectGRPC
    \/ OptionalWebRTCConfig
    \/ NewPeerConnection
    \/ CreateDataChannel
    \/ VanillaOffer
    \/ GatherWait
    \/ CreateOffer
    \/ SetLocalDescription
    \/ encodeSDP
    \/ Call
    \/ Spawn
    \/ doCallCtxDone
    \/ doCallReady
    \/ doCallErrTask
    \/ doCallErrHook
    \/ ErrorUpdate
    \/ ErrorUpdateReturns
    \/ SendDoneOrch
    \/ SendDoneOrchReturns
    \/ Defers
    \/ TaskLoop
    \/ RecvEnds
    \/ RecvInit
    \/ CloseRemoteDescSet
    \/ SendDoneTask
    \/ SendDoneTaskReturns
    \/ RecvUpdate
    \/ RecvOther
    \/ SendErrTaskDropped
    \/ OnICECandidate
    \/ HookSelect
    \/ SendDoneHook
    \/ SendDoneHookReturns
    \/ RelayCandidate
    \/ SendErrHookDropped

Spec == Init /\ [][Next]_vars

\* ------------------------------------------- translator specification

\* The variables of the dial, which a translator run leaves alone.
dialVars == <<trickle, ctxErr, cancelAt, timedOut, orch, conn, connCloses, pc,
              pcCloses, pcDeferred, successful, localDesc, remoteDesc, hookSet,
              exchangeCtx, once, uuid, remoteDescSet, clientCh, ready, via,
              callRes, callErr, ch, err, taskPc, haveInit, taskErr, recvLog,
              applied, hookPc, hookArg, hookErr, nCands, gathered, sent>>

\* A translator run starts with a local candidate (to be sent and read back)
\* or with a wire candidate (to be read).
TranslatorInit ==
    /\ DialInit
    /\ \/ \E ij \in ICECandidateInits :
            xlat = [XlatIdle EXCEPT !.given = "local", !.phase = "start",
                                    !.local = ij]
       \/ \E i \in ICECandidates :
            xlat = [XlatIdle EXCEPT !.given = "wire", !.phase = "start",
                                    !.wire = i]

\* iProto := iceCandidateToProto(i): the local candidate is put on the wire.
TranslateToProto ==
    /\ xlat.given = "local"
    /\ xlat.phase = "start"
    /\ xlat' = [xlat EXCEPT !.wire = iceCandidateInitToProto(xlat.local),
                            !.phase = "wire"]
    /\ UNCHANGED dialVars

\* cand := iceCandidateFromProto(s.Update.Candidate) on a candidate that was
\* produced by iceCandidateInitToProto: the round trip ends.
TranslateBack ==
    /\ xlat.given = "local"
    /\ xlat.phase = "wire"
    /\ xlat' = [xlat EXCEPT !.back = iceCandidateFromProto(xlat.wire),
                            !.phase = "done"]
    /\ UNCHANGED dialVars

\* cand := iceCandidateFromProto(s.Update.Candidate) on any wire candidate.
TranslateFromProto ==
    /\ xlat.given = "wire"
    /\ xlat.phase = "start"
    /\ xlat' = [xlat EXCEPT !.local = iceCandidateFromProto(xlat.wire),
                            !.phase = "done"]
    /\ UNCHANGED dialVars

TranslatorNext ==
    \/ TranslateToProto
    \/ TranslateBack
    \/ TranslateFromProto

TranslatorSpec == TranslatorInit /\ [][TranslatorNext]_vars

\* --------------------------------------------------- liveness specification

\* callClient.Recv() returns once its stream is torn down: the stream lives
\* on the control connection and is bound to signalCtx, so it ends when the
\* connection is closed or the caller's context finishes. (exchangeCancel
\* does not reach it.)
RecvReleased == conn = "closed" \/ CtxDone

\* Steps of the orchestrator that do not wait for the peer: local calls
\* return, a select with a ready case takes one, and a call on a finished
\* context returns.
OrchProgress ==
    \/ dialDirectGRPC /\ DialCtxDone
    \/ OptionalWebRTCConfig /\ CtxDone
    \/ NewPeerConnection
    \/ CreateDataChannel
    \/ VanillaOffer
    \/ GatherWait /\ CtxDone
    \/ CreateOffer
    \/ SetLocalDescription
    \/ encodeSDP
    \/ Call /\ CtxDone
    \/ Spawn
    \/ doCallCtxDone
    \/ doCallReady
    \/ doCallErrTask
    \/ doCallErrHook
    \/ ErrorUpdate
    \/ ErrorUpdateReturns /\ ExchangeDone
    \/ SendDoneOrch
    \/ SendDoneOrchReturns /\ ExchangeDone
    \/ Defers

\* Steps of the receive task that do not wait for the peer.
TaskProgress ==
    \/ TaskLoop
    \/ RecvEnds /\ RecvReleased
    \/ CloseRemoteDescSet
    \/ SendDoneTask
    \/ SendDoneTaskReturns /\ ExchangeDone
    \/ SendErrTaskDropped

\* Steps of a hook invocation that do not wait for the peer.
HookProgress ==
    \/ HookSelect
    \/ SendDoneHook
    \/ SendDoneHookReturns /\ ExchangeDone
    \/ RelayCandidate /\ ExchangeDone
    \/ SendErrHookDropped

\* The goroutines are scheduled fairly; nothing is assumed of the signaling
\* service, of the engine's gathering or of the caller.
LiveSpec ==
    /\ Spec
    /\ WF_vars(OrchProgress)
    /\ WF_vars(TaskProgress)
    /\ WF_vars(HookProgress)

\* ---------------------------------------------------------------- claims

\* Indices of sent holding a terminal update (done, or error-with-status).
TerminalsSent == {i \in DOMAIN sent : sent[i].kind \in {"done", "error"}}

\* C1: in every reachable state of every interleaving of the orchestrator,
\* the receive task and the hook, at most one terminal update (done or
\* error) has been issued to the signaling service, and a second caller of
\* the one-shot guard never runs it while or after another does.
C1_AtMostOneTerminal ==
    /\ Cardinality(TerminalsSent) <= 1
    /\ Cardinality({p \in {"orch", "task", "hook"} :
                      \/ p = "orch" /\ orch \in {"errRun", "doneRun"}
                      \/ p = "task" /\ taskPc = "doneRun"
                      \/ p = "hook" /\ hookPc = "doneRun"}) <= 1

\* C1 witness: the hook issued the done update on the nil candidate and the
\* orchestrator, reaching its own sendDone on readiness, skipped it and
\* returned the channel.
C1_Witness ==
    /\ orch = "returned"
    /\ ch
    /\ via = "ready"
    /\ \E i \in DOMAIN sent : sent[i].kind = "done" /\ sent[i].by = "hook"

\* C2: in trickle mode every request the hook issues (a candidate update or
\* the gathering-complete done) is issued with the remote description
\* already applied to the endpoint; a hook invocation is past its select only
\* then, and one that waits with the signal not given and the exchange not
\* torn down cannot take a step.
C2_NoRelayBeforeRemoteDesc ==
    trickle =>
        /\ \A i \in DOMAIN sent : sent[i].by = "hook" => sent[i].rd
        /\ hookPc \in {"relay", "doneRun"} => remoteDesc
        /\ remoteDescSet => remoteDesc
        /\ (hookPc = "select" /\ ~remoteDesc /\ exchangeCtx = "live")
               => ~ENABLED HookSelect

\* C2 witness: a candidate was relayed by a hook invocation that had fired
\* before the remote-description-ready signal and waited for it.
C2_Witness ==
    /\ trickle
    /\ \E i \in DOMAIN sent :
        sent[i].kind = "candidate" /\ sent[i].early /\ sent[i].rd

\* recvLog[i] is an update read with no init read before it.
UpdateBeforeInitAt(i) ==
    /\ recvLog[i].kind = "update"
    /\ \A j \in 1..(i - 1) : recvLog[j].kind /= "init"

\* C3: an update read before any init is never applied to the endpoint and
\* never skipped: it is the last message the task reads, and
\* exchangeCandidates ends with the update-before-init error, which the task
\* reports.
C3_UpdateBeforeInitRejected ==
    \A i \in DOMAIN recvLog :
        UpdateBeforeInitAt(i) =>
            /\ i \notin applied
            /\ i = Len(recvLog)
            /\ taskErr = "updateBeforeInit"
            /\ taskPc \in {"sendErr", "done"}

\* C3 witness: an update arrived first and the dial returned the
\* update-before-init error to the caller.
C3_Witness ==
    /\ recvLog /= <<>>
    /\ UpdateBeforeInitAt(1)
    /\ orch = "returned"
    /\ "updateBeforeInit" \in err

\* recvLog[i] is an update whose identifier differs from that of the first
\* init read before it.
MismatchAt(i) ==
    /\ recvLog[i].kind = "update"
    /\ \E j \in 1..(i - 1) :
        /\ recvLog[j].kind = "init"
        /\ \A k \in 1..(j - 1) : recvLog[k].kind /= "init"
        /\ recvLog[j].uuid /= recvLog[i].uuid

\* C4: an update read after init whose identifier differs from the one init
\* assigned is not applied and not dropped: it is the last message read and
\* exchangeCandidates ends with the mismatch error; every applied update
\* carries the session identifier.
C4_UuidMismatchRejected ==
    /\ \A i \in DOMAIN recvLog :
        MismatchAt(i) =>
            /\ i \notin applied
            /\ i = Len(recvLog)
            /\ taskErr = "uuidMismatch"
            /\ taskPc \in {"sendErr", "done"}
    /\ \A i \in applied : recvLog[i].kind = "update" /\ recvLog[i].uuid = uuid

\* C4 witness: a mismatched update followed the init and the dial returned
\* the mismatch error.
C4_Witness ==
    /\ \E i \in DOMAIN recvLog : MismatchAt(i)
    /\ orch = "returned"
    /\ "uuidMismatch" \in err

\* Indices of recvLog holding an init.
InitsRead == {i \in DOMAIN recvLog : recvLog[i].kind = "init"}

\* C5 as stated: in either mode, once a second init has been read, the dial
\* returns the duplicate-init error and the channel wrapper is closed (judged
\* where dialWebRTC's results are set and its deferred functions are next).
C5_Original ==
    (orch = "defers" /\ Cardinality(InitsRead) >= 2) =>
        /\ "dupInit" \in err
        /\ clientCh = "closed"

\* C5 as amended: a second init is read in trickle mode only; it is never
\* applied, it is the last message the task reads, and exchangeCandidates
\* ends with the duplicate-init error, which the task offers to the
\* orchestrator. When the orchestrator's wait takes that error the channel
\* wrapper is closed, no channel is returned and the returned error contains
\* it. In vanilla mode the task reads nothing after an init.
C5_DuplicateInitAborts ==
    /\ \A j \in InitsRead :
        (\E i \in InitsRead : i < j) =>
            /\ trickle
            /\ j = Len(recvLog)
            /\ taskErr = "dupInit"
            /\ taskPc \in {"sendErr", "done"}
    /\ (via = "errCh" /\ "dupInit" \in callErr) =>
            /\ clientCh = "closed"
            /\ ~ch
            /\ orch \in {"defers", "returned"} => "dupInit" \in err
    /\ ~trickle => \A i \in InitsRead : i = Len(recvLog)

\* C5 witness: two inits were read, the orchestrator took the error from
\* errCh, closed the wrapper and the dial returned the duplicate-init error.
C5_Witness ==
    /\ Cardinality(InitsRead) >= 2
    /\ via = "errCh"
    /\ orch = "returned"
    /\ "dupInit" \in err
    /\ clientCh = "closed"

\* C6: in vanilla mode no candidate update is ever issued and no inbound
\* candidate is ever applied; the requests issued are the initial Call, first,
\* and at most one terminal update.
C6_VanillaNoCandidates ==
    ~trickle =>
        /\ \A i \in DOMAIN sent : sent[i].kind \in {"call", "done", "error"}
        /\ \A i \in DOMAIN sent : sent[i].kind = "call" <=> i = 1
        /\ Cardinality(TerminalsSent) <= 1
        /\ applied = {}

\* C6 witness: a vanilla dial that succeeded after exactly the initial Call
\* and the done update.
C6_Witness ==
    /\ ~trickle
    /\ orch = "returned"
    /\ ch
    /\ Len(sent) = 2
    /\ sent[2].kind = "done"

\* C7 as stated: when the caller's context finished while the orchestrator
\* was in doCall's select and the wait ended on that context, the dial
\* returns the cancellation cause, the channel wrapper is closed, and no
\* request was issued to the signaling service after that closure.
C7_Original ==
    (orch = "returned" /\ via = "ctx" /\ cancelAt = "doCall") =>
        /\ ctxErr \in err
        /\ ~ch
        /\ clientCh = "closed"
        /\ \A i \in DOMAIN sent : ~sent[i].closed

\* C7 as amended: when doCall's wait ended on the caller's context, no
\* channel is returned and the channel wrapper is closed; every request
\* issued after that closure (the error update the orchestrator still
\* attempts, or the update of a hook invocation already past its wait) is
\* issued on the already finished exchange context; and the returned error
\* contains the cancellation cause.
C7_CancelClosesChannel ==
    via = "ctx" =>
        /\ ~ch
        /\ clientCh = "closed"
        /\ \A i \in DOMAIN sent : sent[i].closed => sent[i].ctxDone
        /\ orch \in {"defers", "returned"} => ctxErr \in err

\* C7 witness: the context finished while the orchestrator was in doCall's
\* select, the dial returned the cause, and the error update was issued
\* after the wrapper was closed.
C7_Witness ==
    /\ orch = "returned"
    /\ via = "ctx"
    /\ cancelAt = "doCall"
    /\ ctxErr \in err
    /\ \E i \in DOMAIN sent :
        sent[i].kind = "error" /\ sent[i].closed /\ sent[i].ctxDone

\* Errors of the deferred closes, combined into whatever is returned.
CleanupErrs == {"pcCloseErr", "connCloseErr"}

\* C8: when the initial Call fails, no channel is returned; a failure with
\* status code Unimplemented is returned as ErrNoWebRTCSignaler and not as the
\* call's own error, every other failure is returned as itself, and
\* ErrNoWebRTCSignaler is returned for no other reason.
C8_NoSignalerClassified ==
    /\ (orch \in {"defers", "returned"} /\ callRes \notin {NoCall, CallOk}) =>
        /\ ~ch
        /\ err \ CleanupErrs =
             IF callRes.isStatus /\ callRes.code = "Unimplemented"
             THEN {"ErrNoWebRTCSignaler"}
             ELSE {IF callRes.isStatus THEN callRes.code ELSE "callErr"}
    /\ "ErrNoWebRTCSignaler" \in err =>
            callRes = [isStatus |-> TRUE, code |-> "Unimplemented"]

\* C8 witness: the service answered the initial Call with Unimplemented and
\* the dial returned ErrNoWebRTCSignaler.
C8_Witness ==
    /\ orch = "returned"
    /\ callRes = [isStatus |-> TRUE, code |-> "Unimplemented"]
    /\ err = {"ErrNoWebRTCSignaler"}

C10_Original ==
    orch = "returned" =>
        \/ ch /\ err = Nil
        \/ ~ch /\ err /= Nil

\* C11: a local candidate translated to the wire representation and back is
\* equal to the one given in candidate string, mid, line index and username
\* fragment: a field that was absent is absent again (not zero-valued), a
\* field that was present is present with its value; and on the wire the
\* same fields are absent and present.
C11_RoundTrip ==
    (xlat.given = "local" /\ xlat.phase \in {"wire", "done"}) =>
        /\ xlat.wire.Candidate = xlat.local.Candidate
        /\ xlat.wire.SdpMid.nil = xlat.local.SDPMid.nil
        /\ xlat.wire.SdpmLineIndex.nil = xlat.local.SDPMLineIndex.nil
        /\ xlat.wire.UsernameFragment.nil = xlat.local.UsernameFragment.nil
        /\ xlat.phase = "done" =>
            /\ xlat.back.Candidate = xlat.local.Candidate
            /\ xlat.back.SDPMid = xlat.local.SDPMid
            /\ xlat.back.SDPMLineIndex = xlat.local.SDPMLineIndex
            /\ xlat.back.UsernameFragment = xlat.local.UsernameFragment

\* C11 witness: a round trip has ended for a candidate with an absent mid, a
\* present empty username fragment and the largest line index.
C11_Witness ==
    /\ xlat.given = "local"
    /\ xlat.phase = "done"
    /\ xlat.local.SDPMid.nil
    /\ xlat.local.UsernameFragment = [nil |-> FALSE, val |-> ""]
    /\ xlat.local.SDPMLineIndex = [nil |-> FALSE, val |-> MaxUint16]
    /\ xlat.back = xlat.local

\* C17 as stated: a wire candidate translated to the local representation
\* keeps candidate string, mid and username fragment, absent fields stay
\* absent, and the local line index equals the wire line index for every
\* value of the 32-bit wire field.
C17_Original ==
    (xlat.given = "wire" /\ xlat.phase = "done") =>
        /\ xlat.local.Candidate = xlat.wire.Candidate
        /\ xlat.local.SDPMid = xlat.wire.SdpMid
        /\ xlat.local.UsernameFragment = xlat.wire.UsernameFragment
        /\ xlat.local.SDPMLineIndex.nil = xlat.wire.SdpmLineIndex.nil
        /\ ~xlat.wire.SdpmLineIndex.nil =>
            ToUint32(xlat.local.SDPMLineIndex.val) = xlat.wire.SdpmLineIndex.val

\* C12 as stated: every update issued to the signaling service (candidate,
\* done or error) carries the session identifier the init assigned; none is
\* issued with the identifier still empty.
C12_Original ==
    \A i \in DOMAIN sent :
        sent[i].kind \in {"candidate", "done", "error"} =>
            /\ sent[i].uuid /= NoUuid
            /\ sent[i].uuid \in AssignedUuids

\* C13: when the dial has returned the channel, the control connection is
\* closed (its close invoked once) and the dial has closed neither the
\* negotiation endpoint nor the channel wrapper that now holds it and its
\* data channel: both are open, and stay open whatever the receive task and
\* the hook still do.
C13_SuccessLeavesEndpointOpen ==
    (orch = "returned" /\ ch) =>
        /\ successful
        /\ conn = "closed"
        /\ connCloses = 1
        /\ pc = "open"
        /\ pcCloses = 0
        /\ clientCh = "open"

\* C13 witness: a trickle dial returned the channel after the receive task
\* had applied an inbound candidate; the connection is closed, the endpoint
\* is open.
C13_Witness ==
    /\ orch = "returned"
    /\ ch
    /\ trickle
    /\ applied /= {}
    /\ conn = "closed"
    /\ pc = "open"

\* The orchestrator's own done update, issued on entering sendDone.
OrchDone == {i \in DOMAIN sent : sent[i].kind = "done" /\ sent[i].by = "orch"}

\* C14 as stated: whenever doCall's wait ended on readiness, the done update
\* has been sent and the dial returns the channel.
C14_Original ==
    (orch = "returned" /\ via = "ready") =>
        /\ \E i \in DOMAIN sent : sent[i].kind = "done"
        /\ ch

\* C14 as amended: when doCall's wait ended on readiness and the dial
\* returns, exactly one terminal update has been issued, a done, by the
\* orchestrator unless another path had issued it; the dial returns the
\* channel when the orchestrator's own done send did not fail (or was not
\* needed), and returns that send's error and no channel when it failed, as
\* it does whenever the exchange context was finished when it was issued.
C14_ReadyReturnsChannel ==
    (via = "ready" /\ orch \in {"defers", "returned"}) =>
        /\ Cardinality(TerminalsSent) = 1
        /\ \A i \in TerminalsSent : sent[i].kind = "done"
        /\ ch <=> "updateErr" \notin err
        /\ ~ch => OrchDone /= {}
        /\ (\E i \in OrchDone : sent[i].ctxDone) => ~ch

\* C14 witness: readiness ended the wait, the orchestrator issued the done
\* update itself and the dial returned the channel.
C14_Witness ==
    /\ orch = "returned"
    /\ via = "ready"
    /\ OrchDone /= {}
    /\ ch
    /\ err = Nil

\* An error is pending on errCh: the receive task or the hook is in sendErr.
ErrPending == taskPc = "sendErr" \/ hookPc = "sendErr"
PendingErrs == (IF taskPc = "sendErr" THEN {taskErr} ELSE {})
                   \cup (IF hookPc = "sendErr" THEN {hookErr} ELSE {})

\* The orchestrator is in doCall's select with the caller's context finished
\* and an error pending, and leaves the select in this step.
SelectsWithBothPending ==
    /\ orch = "doCall"
    /\ CtxDone
    /\ ErrPending
    /\ orch' /= "doCall"

\* C15 as stated: when the caller's context finished during the wait and an
\* error is pending (the channel not being ready), the wrapper is closed and
\* doCall's result is the cancellation cause, not the pending error.
C15_Original ==
    [][(SelectsWithBothPending /\ cancelAt = "doCall" /\ ~ready) =>
        /\ clientCh' = "closed"
        /\ ctxErr \in callErr'
        /\ callErr' \cap (PendingErrs \ {ctxErr}) = {}]_vars

\* C15 as amended: when the caller's context is finished and an error is
\* pending while the orchestrator waits, the select takes any case that is
\* ready. Taking the context, the dial closes the wrapper and doCall's result
\* holds the cancellation cause and not the pending error; taking the pending
\* error, the dial closes the wrapper and doCall's result holds that error
\* and not the cancellation cause (unless the pending error is that cause,
\* reported by the receive task); readiness can be taken only if the channel
\* is ready too. In the first two cases no channel is returned and the
\* returned error holds doCall's result.
C15_CancelOrPendingError ==
    /\ [][SelectsWithBothPending =>
            /\ via' \in {"ctx", "errCh", "ready"}
            /\ via' = "ready" => ready
            /\ via' = "ctx" =>
                /\ clientCh' = "closed"
                /\ ctxErr \in callErr'
                /\ callErr' \cap (PendingErrs \ {ctxErr}) = {}
            /\ via' = "errCh" =>
                /\ clientCh' = "closed"
                /\ callErr' \cap PendingErrs /= {}
                /\ ctxErr \in callErr' => ctxErr \in PendingErrs]_vars
    /\ []((via \in {"ctx", "errCh"} /\ orch \in {"defers", "returned"}) =>
            /\ ~ch
            /\ callErr /= Nil
            /\ callErr \subseteq err)

\* C15 witness: the context was cancelled during the wait, the select took
\* the receive task's pending error, and the dial returned that error
\* without the cancellation cause.
C15_Witness ==
    /\ orch = "returned"
    /\ cancelAt = "doCall"
    /\ via = "errCh"
    /\ taskErr \in err
    /\ ctxErr \notin err
    /\ clientCh = "closed"

\* C18 as stated: when the signaling timeout has fired while the control
\* connection was being opened or the advised-configuration request was
\* outstanding, that step is aborted and the dial fails: the dial goes no
\* further than that request and returns no channel.
C18_Original ==
    timedOut =>
        /\ orch \in {"dial", "config", "defers", "returned"}
        /\ pc = "none"
        /\ ~ch

\* C19 as stated: in trickle mode no candidate update is issued after a
\* terminal update (done or error).
C19_Original ==
    trickle =>
        \A i, j \in DOMAIN sent :
            (i < j /\ Terminal(sent[i])) => sent[j].kind /= "candidate"

\* C19 as amended: in trickle mode a candidate update is never issued after
\* the hook's own done update (the engine hands over the nil candidate last)
\* and the receive task issues no terminal update; a candidate update can
\* follow only a terminal update of the orchestrator (the done on readiness
\* or the error update), issued while a hook invocation was still relaying.
C19_CandidateAfterOrchTerminalOnly ==
    trickle =>
        /\ \A i, j \in DOMAIN sent :
            (i < j /\ Terminal(sent[i]) /\ sent[j].kind = "candidate") =>
                /\ sent[i].by = "orch"
                /\ sent[j].by = "hook"
        /\ \A i \in DOMAIN sent : Terminal(sent[i]) => sent[i].by /= "task"

\* C19 witness: the orchestrator issued the done update on readiness and the
\* hook then issued a candidate update, the exchange context still live.
C19_Witness ==
    /\ trickle
    /\ \E i, j \in DOMAIN sent :
        /\ i < j
        /\ sent[i].kind = "done"
        /\ sent[i].by = "orch"
        /\ sent[j].kind = "candidate"
        /\ ~sent[j].ctxDone

\* The receive task is not running: it was never started, or it has ended.
TaskEnded == taskPc \in {"unstarted", "done"}

C20_CancelledDialReturns ==
    (ctxErr /= "none") ~> (orch = "returned")

\* C20 witness: the inbound stream ended cleanly before any init, the dial
\* waited, the context finished and the dial returned the cause.
C20_Witness ==
    /\ orch = "returned"
    /\ recvLog = <<>>
    /\ taskErr = "nil"
    /\ taskPc = "done"
    /\ via = "ctx"
    /\ cancelAt = "doCall"
    /\ ctxErr \in err

====
